---- MODULE Spec2Model ----
(***************************************************************************)
(* Capture-and-process pipeline of OCRCapturText: the region selector      *)
(* (ScreenCapturer), the capture step, the controller (MainApplication),   *)
(* its ThreadPoolExecutor jobs and the resize debounce.                    *)
(*                                                                         *)
(* Threads.  Every handler bound to a Tk event or scheduled with           *)
(* root.after runs on the UI thread, one at a time: each is one action.    *)
(* A job of the executor runs on a worker thread and interleaves with the  *)
(* UI thread between any two of its reads and writes of the controller's   *)
(* fields: each job is a sequence of steps with a program counter.         *)
(*                                                                         *)
(* Versions.  src/version holds release 1.0 and release 1.1 of the same    *)
(* program.  `version` selects the release; where the two differ the       *)
(* definition branches on it.  Line numbers in the comments are those of   *)
(* release 1.1 unless release 1.0 is named.                                *)
(***************************************************************************)
EXTENDS Integers, Sequences, FiniteSets, TLC

\* ---------------------------------------------------------------- bounds
\* Pointer coordinates range over 0..MaxCoord on each axis.
MaxCoord == 1
\* At most MaxCaptures captures are started in one behaviour.
MaxCaptures == 2
\* At most MaxJobs jobs are queued or running at once.
MaxJobs == 2
\* The image label is between 1 and MaxView pixels wide and high.
MaxView == 2
\* At most MaxPosted label updates wait in the Tk event queue at once.
MaxPosted == 1
\* Tk holds at most MaxTimers debounce timers at once.
MaxTimers == 2
\* Length of one clock tick in milliseconds.
TickMs == 100
\* Captured images of the scaler runs are up to MaxSource pixels wide and
\* high, their labels up to MaxLabel pixels.
MaxSource == 22
MaxLabel == 15

\* ------------------------------------------------------ program constants
\* ThreadPoolExecutor(max_workers=2)
MAX_WORKERS == 2
\* root.after(100, self.debounced_resize_and_update_image)   (release 1.1)
DebounceMsV11 == 100
\* root.after(50, self.debounced_resize_and_update_image)    (release 1.0)
DebounceMsV10 == 50

None == [none |-> TRUE]

Versions == {"V1.0", "V1.1"}
\* os.name: 'nt' has a native bitmap clipboard path, anything else has not.
OsNames == {"nt", "posix"}
\* self.delay_options
delay_options == {0, 3, 5, 10}

Coords == 0..MaxCoord
Points == Coords \X Coords
\* A label that is not laid out yet (or a minimised window) reports 1 x 1.
Views == {<<n, n>> : n \in 1..MaxView}
Workers == 1..MAX_WORKERS
\* Identifiers of the timers Tk holds for debounced_resize_and_update_image,
\* and the entry of an identifier that names no pending timer.
TimerIds == 1..MaxTimers
NoTimer == 0 - 1

Min(a, b) == IF a <= b THEN a ELSE b
Max(a, b) == IF a >= b THEN a ELSE b

\* ------------------------------------------------------------------ state
VARIABLES
    version,           \* release of the program
    os_name,           \* os.name
    root_visible,      \* main window mapped (deiconify) or withdrawn
    capture_after,     \* pending root.after(..., self.capture_process) timers
    selection_window,  \* ScreenCapturer.selection_window
    start_xy,          \* ScreenCapturer.start_x, start_y (None before a press)
    overlays,          \* number of overlay Toplevels that exist
    captures,          \* number of captures started
    captured_image,    \* MainApplication.captured_image
    original_image,    \* MainApplication.original_image
    tk_image,          \* MainApplication.tk_image
    label_image,       \* image shown by image_label
    text_button,       \* state of text_button
    image_button,      \* state of image_button
    viewport,          \* <<winfo_width, winfo_height>> of image_label
    resize_job,        \* MainApplication.resize_job: None or a timer id
    timers,            \* ticks left of each pending debounce timer of Tk
    since_event,       \* ticks since the last event of the burst (capped)
    burst_events,      \* resize events of the current burst (capped at 2)
    queue,             \* work queue of the executor
    running,           \* job of each worker thread, or None
    posted,            \* pending root.after(0, self._update_image_label)
    tesseract_path,    \* MainApplication.config['tesseract_path']
    tesseract_cmd,     \* pytesseract.pytesseract.tesseract_cmd
    dialog,            \* the open ConfigurationDialog, or None
    closed,            \* on_closing has destroyed the main window
    executor_shutdown, \* executor.shutdown has been called
    config_file,       \* what ConfigurationManager.CONFIG_FILE holds
    config,            \* MainApplication.config (None before it is loaded)
    default_config,    \* ConfigurationManager.DEFAULT_CONFIG
    out                \* what the latest step did that leaves no state behind

\* The state of the program, and with `out` all variables.
state == <<version, os_name, root_visible, capture_after, selection_window,
           start_xy, overlays, captures, captured_image, original_image,
           tk_image, label_image, text_button, image_button, viewport,
           resize_job, timers, since_event, burst_events, queue, running,
           posted, tesseract_path, tesseract_cmd, dialog, closed,
           executor_shutdown, config_file, config, default_config>>
vars == <<state, out>>

selectorVars == <<selection_window, start_xy, overlays>>
imageVars == <<captured_image, original_image>>
buttonVars == <<text_button, image_button>>
debounceVars == <<resize_job, timers, since_event, burst_events>>
poolVars == <<queue, running>>
constVars == <<version, os_name>>
engineVars == <<tesseract_path, tesseract_cmd, dialog>>
configVars == <<config_file, config, default_config>>

\* ------------------------------------------------------------ values
\* A PIL image: the capture it came from and its pixel size.
Img(id, w, h) == [id |-> id, w |-> w, h |-> h]
\* An ImageTk.PhotoImage: the image it was made from and its pixel size.
Photo(src, w, h) == [src |-> src, w |-> w, h |-> h]
Msg(key, by) == [key |-> key, by |-> by]
\* A work item of the executor. snap is the controller's captured_image when
\* the item was submitted; loc holds the locals of resize_image between its
\* two steps.
Job(kind, snap) ==
    [kind |-> kind, pc |-> "queued", snap |-> snap, loc |-> None]

DebounceMs(ver) == IF ver = "V1.1" THEN DebounceMsV11 ELSE DebounceMsV10
\* Whole ticks a timer of ms milliseconds needs before it may fire.
Ticks(ms) == (ms + TickMs - 1) \div TickMs
DebounceTicks(ver) == Ticks(DebounceMs(ver))

\* What a step did: the message box it showed and the thread showing it,
\* the Tk operation a worker thread performed itself, the events of the
\* selection handler in program order with the rectangle it computed
\* (x, y, width, height), the rescale a debounce timer ran
\* (the label size it read, the ticks since the last resize event, the
\* number of events of the burst and the size it asked an image of, None
\* when a guard returned), what it did to the system clipboard
\* ("none", "text", "image" or "emptied"), the job it finished, the
\* exception raised in the body of that job ("none" when it ran through),
\* the detail formatted into the message ("none" for a message without
\* one), the result of a path validation, the exception that left the
\* job function ("none" when it returned), the exception that left a
\* handler of the overlay before it did anything ("none" when none did),
\* and the command pytesseract ran the engine with ("none" when the step
\* ran no OCR).
Quiet == [msg |-> None, worker_ui_op |-> "none", events |-> <<>>,
          released |-> None, region |-> None, rescale |-> None,
          clipboard |-> "none", job |-> None, raised |-> "none",
          detail |-> "none", validation |-> None, escaped |-> "none",
          handler_error |-> "none", engine |-> "none"]
ShowMsg(key, by) == [Quiet EXCEPT !.msg = Msg(key, by)]
WorkerOp(op) == [Quiet EXCEPT !.worker_ui_op = op]

JobCount == Len(queue) + Cardinality({w \in Workers : running[w] # None})

\* --------------------------------------------------------- ImageScaler
\* Python floats are IEEE 754 binary64 numbers. A positive one is held as
\* [m, e]: m is its significand of FloatBits bits, most significant first
\* (m[1] = 1), and e the exponent of its last bit, so its value is m * 2^e.
FloatBits == 53

\* Digits are handled ChunkBits at a time, so that no product leaves the
\* range of a machine integer.
ChunkBits == 15

\* The number of binary digits of a natural number below 2^30.
BitLength(n) == CHOOSE k \in 0..30 : n < 2^k /\ (k = 0 \/ 2^(k - 1) <= n)
\* n as len binary digits, most significant first.
BitsFixed(n, len) == [i \in 1..len |-> (n \div 2^(len - i)) % 2]
\* The binary digits of a natural number, most significant first.
BitsOf(n) == BitsFixed(n, BitLength(n))

\* The natural number of a sequence of at most 30 binary digits.
RECURSIVE ValueOf(_)
ValueOf(bits) ==
    IF bits = <<>> THEN 0
    ELSE 2 * ValueOf(SubSeq(bits, 1, Len(bits) - 1)) + bits[Len(bits)]

\* The digits of the number one greater; one digit longer on a carry out.
Incremented(bits) ==
    IF \A i \in 1..Len(bits) : bits[i] = 1
    THEN <<1>> \o [i \in 1..Len(bits) |-> 0]
    ELSE LET last == CHOOSE i \in 1..Len(bits) :
                        bits[i] = 0 /\ \A j \in (i + 1)..Len(bits) : bits[j] = 1
         IN  [i \in 1..Len(bits) |->
                 IF i < last THEN bits[i] ELSE IF i = last THEN 1 ELSE 0]

\* Round to nearest, ties to even: the float of the number whose digits are
\* bits (bits[1] = 1) with last digit of exponent e, plus a rest below the
\* last digit that is nonzero iff more.
Rounded(bits, e, more) ==
    IF Len(bits) <= FloatBits
    THEN [m |-> bits \o [i \in 1..(FloatBits - Len(bits)) |-> 0],
          e |-> e - (FloatBits - Len(bits))]
    ELSE LET keep == SubSeq(bits, 1, FloatBits)
             rest == more \/ \E i \in (FloatBits + 2)..Len(bits) : bits[i] = 1
             up == bits[FloatBits + 1] = 1 /\ (rest \/ keep[FloatBits] = 1)
             sum == IF up THEN Incremented(keep) ELSE keep
             drop == Len(bits) - FloatBits
         IN  IF Len(sum) > FloatBits
             THEN [m |-> SubSeq(sum, 1, FloatBits), e |-> e + drop + 1]
             ELSE [m |-> sum, e |-> e + drop]

\* Long division: the next chunks * ChunkBits digits of the quotient behind
\* the binary point, for a remainder r < b < 2^ChunkBits, and the remainder
\* they leave.
RECURSIVE Divided(_, _, _)
Divided(r, b, chunks) ==
    IF chunks = 0 THEN [bits |-> <<>>, r |-> r]
    ELSE LET rest == Divided((r * 2^ChunkBits) % b, b, chunks - 1)
         IN  [bits |-> BitsFixed((r * 2^ChunkBits) \div b, ChunkBits)
                       \o rest.bits,
              r |-> rest.r]

\* Chunks of digits behind the binary point that a division works out: more
\* than FloatBits + 1 significant digits of any quotient above 2^-ChunkBits.
DivChunks == 5

\* a / b for integers a > 0 and b > 0 (int / int is correctly rounded): the
\* quotient's digits from the first significant one on, rounded with what
\* the division leaves.
FloatDiv(a, b) ==
    LET x == Divided(a % b, b, DivChunks)
        digits == BitsOf(a \div b) \o x.bits
        first == CHOOSE i \in 1..Len(digits) :
                    digits[i] = 1 /\ \A j \in 1..(i - 1) : digits[j] = 0
    IN  Rounded(SubSeq(digits, first, Len(digits)),
                0 - DivChunks * ChunkBits, x.r > 0)

\* The digits of n * bits + carry, for n < 2^ChunkBits.
RECURSIVE Times(_, _, _)
Times(bits, n, carry) ==
    IF bits = <<>> THEN BitsOf(carry)
    ELSE LET k == Min(Len(bits), ChunkBits)
             low == SubSeq(bits, Len(bits) - k + 1, Len(bits))
             t == n * ValueOf(low) + carry
         IN  Times(SubSeq(bits, 1, Len(bits) - k), n, t \div 2^k)
             \o BitsFixed(t % 2^k, k)

\* n * f for an integer n > 0 and a float f: the float of the exact product.
FloatTimes(n, f) == Rounded(Times(f.m, n, 0), f.e, FALSE)

\* Whether the digits of a come before those of b, of the same length.
LexLess(a, b) ==
    \E i \in 1..Len(a) : a[i] < b[i] /\ \A j \in 1..(i - 1) : a[j] = b[j]

FloatLess(f, g) == f.e < g.e \/ (f.e = g.e /\ LexLess(f.m, g.m))
\* min(f, g): g only when it is the smaller.
FloatMin(f, g) == IF FloatLess(g, f) THEN g ELSE f

\* int(f) for a float f below 2^FloatBits: the digits above the binary point.
IntOf(f) ==
    IF f.e >= 0 THEN ValueOf(f.m \o [i \in 1..f.e |-> 0])
    ELSE IF FloatBits + f.e <= 0 THEN 0
    ELSE ValueOf(SubSeq(f.m, 1, FloatBits + f.e))

\* resize_image that scales every image to the label, as
\* pixmap.scaled(size, KeepAspectRatio) does.
ScaledSize_AlwaysScales(ver, ow, oh, lw, lh) ==
    LET scale_factor == FloatMin(FloatDiv(lw, ow), FloatDiv(lh, oh))
    IN  <<Max(1, IntOf(FloatTimes(ow, scale_factor))),
          Max(1, IntOf(FloatTimes(oh, scale_factor)))>>

\* resize_image that scales by the width alone.
ScaledSize_ByWidth(ver, ow, oh, lw, lh) ==
    IF ow <= lw /\ oh <= lh
    THEN <<ow, oh>>
    ELSE LET scale_factor == FloatDiv(lw, ow)
         IN  <<Max(1, IntOf(FloatTimes(ow, scale_factor))),
               Max(1, IntOf(FloatTimes(oh, scale_factor)))>>

\* resize_image, lines 606-619: the size of the image handed to PhotoImage
\* for an original of ow x oh pixels and a label of lw x lh pixels (release
\* 1.0, lines 609-622, does not raise a side of 0 to 1).
ScaledSize(ver, ow, oh, lw, lh) ==
    IF ow <= lw /\ oh <= lh
    THEN <<ow, oh>>
    ELSE LET width_ratio == FloatDiv(lw, ow)
             height_ratio == FloatDiv(lh, oh)
             scale_factor == FloatMin(width_ratio, height_ratio)
             new_width == IntOf(FloatTimes(ow, scale_factor))
             new_height == IntOf(FloatTimes(oh, scale_factor))
         IN  IF ver = "V1.1"
             THEN <<Max(1, new_width), Max(1, new_height)>>
             ELSE <<new_width, new_height>>

\* resize_image, lines 597-604: the size it goes on to make an image of, or
\* None when one of its guards returns.
TargetSize(ver, orig, view) ==
    IF orig = None THEN None
    ELSE IF view[1] <= 1 \/ view[2] <= 1 THEN None
    ELSE LET sz == ScaledSize(ver, orig.w, orig.h, view[1], view[2])
         IN  [w |-> sz[1], h |-> sz[2]]

\* Image.resize, called for an original that does not fit the label, raises
\* ValueError ("height and width must be > 0") for a size with a side below
\* 1, and resize_image does not catch it.
ResizeRaises(orig, view, size) ==
    /\ size # None
    /\ ~(orig.w <= view[1] /\ orig.h <= view[2])
    /\ (size.w < 1 \/ size.h < 1)

\* resize_image run in one piece (on the UI thread): the new tk_image, for
\* the size that TargetSize gives.
ResizeImage(orig, view, size, old) ==
    IF size = None \/ ResizeRaises(orig, view, size) THEN old
    ELSE Photo(orig.id, size.w, size.h)

\* ----------------------------------------------------------- OCR engine
\* The engine paths a configuration can hold: none, the path of a file that
\* does not exist, the path of a working Tesseract executable, and the path
\* of an existing file that is not one.
Paths == {"", "missing", "engine", "other"}
\* pytesseract's tesseract_cmd as long as nothing has set it: a bare command
\* name, which the system looks up on PATH.
DefaultCmd == "tesseract"
\* os.path.exists(path), line 162.
Exists(path) == path \in {"engine", "other"}
\* Whether pytesseract.get_tesseract_version(), line 169, returns under a
\* command that names an existing file.
VersionReturns(cmd) == cmd = "engine"

\* validate_tesseract_path, lines 154-176: the path it read, the text it
\* puts on the validation label, whether it ran the engine, and the value it
\* returns. It leaves tesseract_cmd as it found it (line 176).
Validation(path) ==
    IF path = ""
    THEN [path |-> path, label |-> "config_no_path", invoked |-> FALSE,
          valid |-> FALSE]
    ELSE IF ~Exists(path)
    THEN [path |-> path, label |-> "config_invalid_path", invoked |-> FALSE,
          valid |-> FALSE]
    ELSE IF VersionReturns(path)
    THEN [path |-> path, label |-> "config_validation_success",
          invoked |-> TRUE, valid |-> TRUE]
    ELSE [path |-> path, label |-> "config_validation_error",
          invoked |-> TRUE, valid |-> FALSE]

\* OCRProcessor.__init__, lines 292-295: tesseract_cmd after it. An empty
\* path leaves the command as it is.
EngineCmd(path, cmd) == IF path # "" THEN path ELSE cmd

\* extract_text, lines 307-309, under a command: the exception it raises,
\* "none" when it returns the text. pytesseract raises
\* TesseractNotFoundError when the system finds no file to run, passes on
\* any other OSError, and raises TesseractError when the engine fails.
ExtractRaises(cmd) ==
    CASE cmd = DefaultCmd -> {"none", "TesseractNotFoundError", "TesseractError"}
      [] cmd = "missing" -> {"TesseractNotFoundError"}
      [] cmd = "engine" -> {"none", "TesseractError"}
      [] OTHER -> {"OSError", "TesseractError"}

\* perform_ocr, lines 702-703: extract_text, then pyperclip.copy of the
\* text, which writes the clipboard or raises without writing it.
OcrRaises(cmd) ==
    ExtractRaises(cmd)
    \cup (IF "none" \in ExtractRaises(cmd) THEN {"PyperclipException"} ELSE {})

\* perform_ocr with the handler for every exception ahead of the one for
\* TesseractNotFoundError.
OcrResult_GenericFirst(raised) ==
    IF raised = "none" THEN "ok" ELSE "error"

\* perform_ocr, lines 705-708: the branch its except clauses take.
OcrResult(raised) ==
    CASE raised = "none" -> "ok"
      [] raised = "TesseractNotFoundError" -> "not_found"
      [] OTHER -> "error"

\* -------------------------------------------------- Configuration store
\* The keys of a configuration record.
Keys == {"tesseract_path", "interface_language"}
\* The keys of UI_TEXTS_BY_LANGUAGE, lines 333-412.
Langs == {"tur", "eng"}
\* The engine path DEFAULT_CONFIG names where os.name is 'nt'.
NtDefaultPath == "C:\\Program Files\\Tesseract-OCR\\tesseract.exe"

\* What json.load returns: a dict with its items, a list of strings with
\* its elements, or a value that is neither (a number, true, null).
NoFields == [k \in {} |-> ""]
Obj(fields) == [type |-> "object", fields |-> fields, items |-> <<>>]
Arr(items) == [type |-> "array", fields |-> NoFields, items |-> items]
Scalar == [type |-> "scalar", fields |-> NoFields, items |-> <<>>]
\* The dict with both keys.
ConfigOf(path, lang) ==
    Obj([k \in Keys |-> IF k = "tesseract_path" THEN path ELSE lang])

\* DEFAULT_CONFIG, lines 25-28.
DEFAULT_CONFIG(os) == ConfigOf(IF os = "nt" THEN NtDefaultPath ELSE "", "tur")

\* What CONFIG_FILE can hold: nothing (the file is missing), a file that
\* cannot be opened or decoded, text that is not JSON, or a JSON text.
Missing == [kind |-> "missing", value |-> Scalar]
Unreadable == [kind |-> "unreadable", value |-> Scalar]
Garbage == [kind |-> "garbage", value |-> Scalar]
Json(value) == [kind |-> "json", value |-> value]

\* The JSON texts of the runs: the dicts over every subset of the keys, the
\* lists of key names, and a value that is neither.
JsonValues ==
    {Obj([k \in S |-> IF k = "tesseract_path" THEN path ELSE lang]) :
        S \in SUBSET Keys, path \in {"", "missing", "engine"}, lang \in Langs}
    \cup {Arr(<<>>), Arr(<<"tesseract_path">>),
          Arr(<<"tesseract_path", "interface_language">>)}
    \cup {Scalar}
FileContents == {Missing, Unreadable, Garbage} \cup {Json(v) : v \in JsonValues}

\* A configuration the controller holds: the value, and whether it is the
\* dict DEFAULT_CONFIG itself rather than a dict of its own.
Own(value) == [shared |-> FALSE, value |-> value]

\* 'key in config', lines 40-41: for a dict the key is one of its keys, for
\* a list it is one of its elements.
Contains(value, key) ==
    IF value.type = "object" THEN key \in DOMAIN value.fields
    ELSE \E i \in 1..Len(value.items) : value.items[i] = key

\* load_config, lines 32-47. An exception in the try block (open or
\* json.load failing, 'in' applied to a value that is no container, an item
\* assigned to a list) ends in DEFAULT_CONFIG.copy(); so does a missing
\* file. A list that holds every key passes the loop untouched and is
\* returned as it is.
load_config(file, defaults) ==
    IF file.kind # "json" THEN Own(defaults)
    ELSE IF file.value.type = "scalar" THEN Own(defaults)
    ELSE IF file.value.type = "array"
    THEN IF \A k \in DOMAIN defaults.fields : Contains(file.value, k)
         THEN Own(file.value)
         ELSE Own(defaults)
    ELSE Own(Obj([k \in DOMAIN file.value.fields \cup DOMAIN defaults.fields |->
                     IF Contains(file.value, k)
                     THEN file.value.fields[k] ELSE defaults.fields[k]]))

\* save_config, lines 49-58: what the file holds afterwards. open(..., 'w')
\* fails and leaves the file, or it truncates the file and json.dump writes
\* the record or fails on the way.
save_config(value, file) == {Json(value), file, Garbage}

\* config[key] = v on the configuration the controller holds, which changes
\* DEFAULT_CONFIG too when it is that dict.
SetItem(key, v) ==
    LET value == Obj([config.value.fields EXCEPT ![key] = v])
    IN  /\ config' = [config EXCEPT !.value = value]
        /\ default_config' = IF config.shared THEN value ELSE default_config

\* ------------------------------------------------------------------ Init
InitFor(ver) ==
    /\ version = ver
    /\ os_name \in OsNames
    /\ root_visible = TRUE
    /\ capture_after = 0
    /\ selection_window = "none"
    /\ start_xy = None
    /\ overlays = 0
    /\ captures = 0
    /\ captured_image = None
    /\ original_image = None
    /\ tk_image = None
    /\ label_image = None
    /\ text_button = "disabled"
    /\ image_button = "disabled"
    /\ viewport = <<1, 1>>
    /\ resize_job = None
    /\ timers = [i \in TimerIds |-> NoTimer]
    /\ since_event = 0
    /\ burst_events = 0
    /\ queue = <<>>
    /\ running = [w \in Workers |-> None]
    /\ posted = 0
    /\ tesseract_path = ""
    /\ tesseract_cmd = DefaultCmd
    /\ dialog = None
    /\ closed = FALSE
    /\ executor_shutdown = FALSE
    /\ config_file = Json(ConfigOf(tesseract_path, "tur"))
    /\ config = Own(ConfigOf(tesseract_path, "tur"))
    /\ default_config = DEFAULT_CONFIG(os_name)
    /\ out = Quiet

\* The program is release 1.1; release 1.0 is kept for comparison.
Init == InitFor("V1.1")
InitV10 == InitFor("V1.0")

\* ------------------------------------------------------- RegionSelector
\* on_button_release with the screenshot taken before the overlay is
\* withdrawn.
ReleaseEvents_ReadFirst(ver, width, height, api_error) ==
    (IF width > 0 /\ height > 0 THEN <<"read">> ELSE <<>>)
    \o <<"hide", "destroy">>
    \o (IF width > 0 /\ height > 0 /\ ~api_error
        THEN <<"callback_image">> ELSE <<"callback_none">>)

\* on_button_release, lines 255-281 (release 1.0: 274-290): the events of
\* the handler in program order for a rectangle of width x height, where
\* api_error says that pyautogui.screenshot raises.
ReleaseEvents(ver, width, height, api_error) ==
    IF ver = "V1.1"
    THEN <<"hide">>
         \o (IF width > 0 /\ height > 0 THEN <<"read">> ELSE <<>>)
         \o <<"destroy">>
         \o (IF width > 0 /\ height > 0 /\ ~api_error
             THEN <<"callback_image">> ELSE <<"callback_none">>)
    ELSE <<"hide", "flush", "sleep", "read">>
         \o (IF api_error THEN <<>> ELSE <<"destroy", "callback_image">>)

\* on_button_release taking the anchor for the top-left corner whatever the
\* direction of the drag.
Region_FromAnchor(start, end_x, end_y) ==
    <<start.x, start.y, end_x - start.x, end_y - start.y>>

\* The rectangle handed to pyautogui.screenshot: <<x1, y1, width, height>>.
Region(start, end_x, end_y) ==
    LET x1 == Min(start.x, end_x)
        y1 == Min(start.y, end_y)
        x2 == Max(start.x, end_x)
        y2 == Max(start.y, end_y)
    IN  <<x1, y1, x2 - x1, y2 - y1>>

Has(seq, e) == \E i \in 1..Len(seq) : seq[i] = e
\* Position of the first e in seq, 0 when there is none.
IndexOf(seq, e) ==
    IF Has(seq, e) THEN CHOOSE i \in 1..Len(seq) :
                            seq[i] = e /\ \A j \in 1..(i - 1) : seq[j] # e
    ELSE 0

\* capture_screen, lines 214-232: a new ScreenCapturer with its overlay.
CaptureScreen ==
    /\ selection_window' = "shown"
    /\ start_xy' = None
    /\ overlays' = overlays + 1

\* start_capture, lines 557-565 (release 1.0: 551-562). The button is part
\* of the main window, so it is clicked only while that window is mapped.
StartCapture ==
    /\ root_visible
    /\ captures < MaxCaptures
    /\ \E delay \in delay_options :
          IF version = "V1.1" \/ delay > 0
          THEN /\ capture_after' = capture_after + 1
               /\ UNCHANGED selectorVars
          ELSE /\ CaptureScreen
               /\ UNCHANGED capture_after
    /\ root_visible' = FALSE
    /\ captures' = captures + 1
    /\ out' = Quiet
    /\ UNCHANGED <<constVars, configVars, closed, executor_shutdown,
                   engineVars, imageVars, tk_image, label_image, buttonVars,
                   viewport, debounceVars, poolVars, posted>>

\* capture_process, lines 567-570, run by the timer start_capture set.
CaptureProcess ==
    /\ capture_after > 0
    /\ capture_after' = capture_after - 1
    /\ CaptureScreen
    /\ out' = Quiet
    /\ UNCHANGED <<constVars, configVars, closed, executor_shutdown,
                   engineVars, root_visible, captures, imageVars, tk_image,
                   label_image, buttonVars, viewport, debounceVars, poolVars,
                   posted>>

\* on_button_press, lines 234-240.
OnButtonPress ==
    /\ selection_window = "shown"
    /\ start_xy = None
    /\ \E p \in Points : start_xy' = [x |-> p[1], y |-> p[2]]
    /\ out' = Quiet
    /\ UNCHANGED <<constVars, configVars, closed, executor_shutdown,
                   engineVars, root_visible, capture_after, selection_window,
                   overlays, captures, imageVars, tk_image, label_image,
                   buttonVars, viewport, debounceVars, poolVars, posted>>

\* on_mouse_drag, lines 242-251: moves the canvas rectangle, which is
\* feedback only; with no anchor the handler raises before changing anything.
OnMouseDrag ==
    /\ selection_window = "shown"
    /\ out' = IF start_xy = None
              THEN [Quiet EXCEPT !.handler_error = "TypeError"]
              ELSE Quiet
    /\ UNCHANGED state

\* cancel_capture, lines 283-287 (release 1.0: 292-294): the events of the
\* handler in program order.
CancelEvents(ver) == <<"cancel", "destroy">>

\* cancel_capture, bound to <Escape> on the overlay.
CancelCapture ==
    /\ selection_window = "shown"
    /\ selection_window' = IF version = "V1.1" THEN "none" ELSE "destroyed"
    /\ overlays' = overlays - 1
    /\ out' = [Quiet EXCEPT !.events = CancelEvents(version)]
    /\ UNCHANGED <<constVars, configVars, closed, executor_shutdown,
                   engineVars, root_visible, capture_after, start_xy, captures,
                   imageVars, tk_image, label_image, buttonVars, viewport,
                   debounceVars, poolVars, posted>>

\* ------------------------------------------------- Application Controller
\* executor.submit(fn): one more work item at the tail of the queue.
Submit(q, job) == Append(q, job)

\* process_captured_image, lines 582-583: the message box it shows.
CaptureMessage(img) ==
    IF img # None THEN None ELSE Msg("warning_screenshot_failed", "ui")

\* process_captured_image that drops the image and disables the actions
\* when the capture failed.
ProcessCapturedImage_ClearsOnFailure(img) ==
    /\ root_visible' = TRUE
    /\ IF img # None
       THEN /\ captured_image' = img
            /\ original_image' = img
            /\ queue' = Append(queue, Job("display", img))
            /\ image_button' = "normal"
            /\ text_button' = "normal"
       ELSE /\ captured_image' = None
            /\ original_image' = None
            /\ image_button' = "disabled"
            /\ text_button' = "disabled"
            /\ UNCHANGED queue

\* process_captured_image that enables the actions before it looks at the
\* result of the capture.
ProcessCapturedImage_EnablesAlways(img) ==
    /\ root_visible' = TRUE
    /\ image_button' = "normal"
    /\ text_button' = "normal"
    /\ IF img # None
       THEN /\ captured_image' = img
            /\ original_image' = img
            /\ queue' = Append(queue, Job("display", img))
       ELSE UNCHANGED <<imageVars, queue>>

\* process_captured_image that sets the display source only when there is
\* none yet.
ProcessCapturedImage_KeepsSource(img) ==
    /\ root_visible' = TRUE
    /\ IF img # None
       THEN /\ captured_image' = img
            /\ original_image' = IF original_image = None THEN img
                                 ELSE original_image
            /\ queue' = Append(queue, Job("display", img))
            /\ image_button' = "normal"
            /\ text_button' = "normal"
       ELSE UNCHANGED <<imageVars, queue, buttonVars>>

\* process_captured_image, lines 572-581 (release 1.0: 569-581), called by
\* on_button_release with the captured image or None. root.geometry only
\* asks for a size: the label changes size when the <Configure> event comes.
ProcessCapturedImage(img) ==
    /\ root_visible' = TRUE
    /\ IF img # None
       THEN /\ captured_image' = img
            /\ original_image' = img
            /\ queue' = Submit(queue, Job("display", img))
            /\ image_button' = "normal"
            /\ text_button' = "normal"
       ELSE UNCHANGED <<imageVars, queue, buttonVars>>

\* on_button_release that takes the origin of the screen as the anchor when
\* no press recorded one.
OnButtonRelease_OriginAnchor ==
    /\ selection_window = "shown"
    /\ \E p \in Points, api_error \in BOOLEAN :
           LET anchor == IF start_xy = None THEN [x |-> 0, y |-> 0]
                         ELSE start_xy
               r == Region(anchor, p[1], p[2])
               ev == ReleaseEvents(version, r[3], r[4], api_error)
               img == IF Has(ev, "callback_image")
                      THEN Img(captures, r[3], r[4]) ELSE None
               called == Has(ev, "callback_image") \/ Has(ev, "callback_none")
           IN  /\ api_error => Has(ev, "read")
               /\ Has(ev, "callback_image") => JobCount < MaxJobs
               /\ IF Has(ev, "destroy")
                  THEN /\ selection_window' =
                            IF version = "V1.1" THEN "none" ELSE "destroyed"
                       /\ overlays' = overlays - 1
                       /\ start_xy' = None
                  ELSE /\ selection_window' = "withdrawn"
                       /\ UNCHANGED <<overlays, start_xy>>
               /\ IF called
                  THEN ProcessCapturedImage(img)
                  ELSE UNCHANGED <<root_visible, imageVars, queue,
                                   buttonVars>>
               /\ out' = [Quiet EXCEPT
                            !.events = ev,
                            !.released = [x |-> p[1], y |-> p[2]],
                            !.region = [x |-> r[1], y |-> r[2],
                                        w |-> r[3], h |-> r[4]],
                            !.msg = IF called THEN CaptureMessage(img)
                                    ELSE None]
               /\ UNCHANGED <<constVars, configVars, closed,
                              executor_shutdown, engineVars, capture_after,
                              captures, tk_image, label_image, viewport,
                              debounceVars, running, posted>>

\* on_button_release, lines 253-281 (release 1.0: 272-290), with the
\* callback it calls. With no anchor min(None, end_x) raises at the first
\* statement and nothing changes. A destroyed overlay leaves its
\* ScreenCapturer unreachable, so its anchor is dropped with it.
OnButtonRelease ==
    /\ selection_window = "shown"
    /\ IF start_xy = None
       THEN /\ out' = [Quiet EXCEPT !.handler_error = "TypeError"]
            /\ UNCHANGED state
       ELSE \E p \in Points, api_error \in BOOLEAN :
              LET r == Region(start_xy, p[1], p[2])
                  ev == ReleaseEvents(version, r[3], r[4], api_error)
                  img == IF Has(ev, "callback_image")
                         THEN Img(captures, r[3], r[4]) ELSE None
                  called == Has(ev, "callback_image") \/ Has(ev, "callback_none")
              IN  /\ api_error => Has(ev, "read")
                  /\ Has(ev, "callback_image") => JobCount < MaxJobs
                  /\ IF Has(ev, "destroy")
                     THEN /\ selection_window' =
                               IF version = "V1.1" THEN "none" ELSE "destroyed"
                          /\ overlays' = overlays - 1
                          /\ start_xy' = None
                     ELSE /\ selection_window' = "withdrawn"
                          /\ UNCHANGED <<overlays, start_xy>>
                  /\ IF called
                     THEN ProcessCapturedImage(img)
                     ELSE UNCHANGED <<root_visible, imageVars, queue,
                                      buttonVars>>
                  /\ out' = [Quiet EXCEPT
                               !.events = ev,
                               !.released = [x |-> p[1], y |-> p[2]],
                               !.region = [x |-> r[1], y |-> r[2],
                                           w |-> r[3], h |-> r[4]],
                               !.msg = IF called THEN CaptureMessage(img)
                                       ELSE None]
                  /\ UNCHANGED <<constVars, configVars, closed,
                                 executor_shutdown, engineVars, capture_after,
                                 captures, tk_image, label_image, viewport,
                                 debounceVars, running, posted>>

\* require_capture, lines 313-328: the wrapped handler runs only if this holds.
RequireCapture(img) == img # None

\* A handler wrapped by require_capture that submits a job of the given kind.
GuardedSubmit(kind) ==
    IF RequireCapture(captured_image)
    THEN /\ JobCount < MaxJobs
         /\ queue' = Submit(queue, Job(kind, captured_image))
         /\ out' = Quiet
    ELSE /\ out' = ShowMsg("warning_no_screenshot", "ui")
         /\ UNCHANGED queue

\* on_text_button that calls perform_ocr itself and shows its message
\* before it returns.
OnTextButton_RunsInline ==
    /\ root_visible
    /\ text_button = "normal"
    /\ RequireCapture(captured_image)
    /\ out' = [Quiet EXCEPT
                 !.job = [kind |-> "ocr", snap |-> captured_image,
                          used |-> captured_image, result |-> "ok"],
                 !.clipboard = "text",
                 !.msg = Msg("info_text_copied", "ui")]
    /\ UNCHANGED <<constVars, configVars, closed, executor_shutdown,
                   engineVars, root_visible, capture_after, selectorVars,
                   captures, imageVars, tk_image, label_image, buttonVars,
                   viewport, debounceVars, poolVars, posted>>

\* on_text_button, lines 646-649. A disabled ttk.Button runs no command.
OnTextButton ==
    /\ root_visible
    /\ text_button = "normal"
    /\ GuardedSubmit("ocr")
    /\ UNCHANGED <<constVars, configVars, closed, executor_shutdown,
                   engineVars, root_visible, capture_after, selectorVars,
                   captures, imageVars, tk_image, label_image, buttonVars,
                   viewport, debounceVars, running, posted>>

\* on_image_button, lines 641-644.
OnImageButton ==
    /\ root_visible
    /\ image_button = "normal"
    /\ GuardedSubmit("clip")
    /\ UNCHANGED <<constVars, configVars, closed, executor_shutdown,
                   engineVars, root_visible, capture_after, selectorVars,
                   captures, imageVars, tk_image, label_image, buttonVars,
                   viewport, debounceVars, running, posted>>

\* ------------------------------------------------------------- debounce
FreeTimer(tm) == CHOOSE i \in TimerIds :
                     tm[i] = NoTimer /\ \A j \in 1..(i - 1) : tm[j] # NoTimer

\* on_window_resize without the after_cancel of lines 626-627.
CancelPending_Never(tm, job) == tm

\* on_window_resize, lines 626-627: the timers left once the pending
\* resize job, if there is one, has been cancelled with after_cancel.
CancelPending(tm, job) ==
    IF job # None THEN [tm EXCEPT ![job.id] = NoTimer] ELSE tm

\* on_window_resize, lines 623-628 (release 1.0: 626-631), for a <Configure>
\* event that gives the label the size sz.
OnWindowResize ==
    /\ root_visible
    /\ \E sz \in Views :
          /\ viewport' = sz
          /\ IF original_image # None
             THEN LET left == CancelPending(timers, resize_job)
                  IN  /\ \E i \in TimerIds : left[i] = NoTimer
                      /\ timers' = [left EXCEPT ![FreeTimer(left)] =
                                        DebounceTicks(version)]
                      /\ resize_job' = [id |-> FreeTimer(left)]
                      /\ burst_events' = Min(2, burst_events + 1)
                      /\ since_event' = 0
             ELSE UNCHANGED <<timers, resize_job, burst_events, since_event>>
    /\ out' = Quiet
    /\ UNCHANGED <<constVars, configVars, closed, executor_shutdown,
                   engineVars, root_visible, capture_after, selectorVars,
                   captures, imageVars, tk_image, label_image, buttonVars,
                   poolVars, posted>>

\* One tick of the clock: every pending timer comes one tick nearer.
Tick ==
    /\ timers' = [i \in TimerIds |->
                     IF timers[i] = NoTimer THEN NoTimer
                     ELSE Max(0, timers[i] - 1)]
    /\ since_event' = IF burst_events > 0
                      THEN Min(since_event + 1, DebounceTicks(version))
                      ELSE since_event
    /\ out' = Quiet
    /\ UNCHANGED <<constVars, configVars, closed, executor_shutdown,
                   engineVars, root_visible, capture_after, selectorVars,
                   captures, imageVars, tk_image, label_image, buttonVars,
                   viewport, resize_job, burst_events, poolVars, posted>>

\* resize_and_update_image, lines 635-639 (release 1.0: 638-641): how many
\* label updates it schedules once resize_image has left tk_image as given.
UpdatesScheduled(ver, image) ==
    IF ver = "V1.1" THEN (IF image # None THEN 1 ELSE 0) ELSE 1

\* debounced_resize_and_update_image, lines 630-639, run by a timer of
\* on_window_resize whose time is up. When resize_image raises, the handler
\* ends there: no label update is scheduled and resize_job is not cleared.
DebouncedResize ==
    \E i \in TimerIds :
       /\ timers[i] = 0
       /\ timers' = [timers EXCEPT ![i] = NoTimer]
       /\ \E size \in {TargetSize(version, original_image, viewport)} :
             /\ tk_image' = ResizeImage(original_image, viewport, size,
                                        tk_image)
             /\ IF ResizeRaises(original_image, viewport, size)
                THEN UNCHANGED <<posted, resize_job>>
                ELSE /\ posted + UpdatesScheduled(version, tk_image')
                           <= MaxPosted
                     /\ posted' = posted + UpdatesScheduled(version, tk_image')
                     /\ resize_job' = None
             /\ out' = [Quiet EXCEPT !.rescale = [read |-> viewport,
                                                  waited |-> since_event,
                                                  events |-> burst_events,
                                                  size |-> size]]
       /\ burst_events' = 0
       /\ since_event' = 0
       /\ UNCHANGED <<constVars, configVars, closed, executor_shutdown,
                      engineVars, root_visible, capture_after, selectorVars,
                      captures, imageVars, label_image, buttonVars, viewport,
                      poolVars>>

\* _update_image_label, lines 590-593, run from the Tk event queue.
UpdateImageLabel ==
    /\ posted > 0
    /\ posted' = posted - 1
    /\ label_image' = tk_image
    /\ out' = Quiet
    /\ UNCHANGED <<constVars, configVars, closed, executor_shutdown,
                   engineVars, root_visible, capture_after, selectorVars,
                   captures, imageVars, tk_image, buttonVars, viewport,
                   debounceVars, poolVars>>

\* ------------------------------------------------- Background Task Runner
Idle(w) == running[w] = None

\* A worker thread takes the work item at the head of the queue and runs
\* the job function up to its first read of the controller's fields. The
\* worker threads are interchangeable: the idle one of least index takes it.
Takes(w, kind) ==
    /\ queue # <<>>
    /\ Head(queue).kind = kind
    /\ Idle(w)
    /\ \A v \in 1..(w - 1) : ~Idle(v)
    /\ queue' = Tail(queue)

At(w, kind, pc) ==
    /\ running[w] # None
    /\ running[w].kind = kind
    /\ running[w].pc = pc

\* What a finished job leaves in `out`: the captured image it was submitted
\* with, the captured image it read and the branch it took.
Done(job, used, result) ==
    [kind |-> job.kind, snap |-> job.snap, used |-> used, result |-> result]

\* A call into Tk made by a worker thread raises once on_closing has
\* destroyed the application: a widget command or a Tk variable fails with
\* TclError, a new PhotoImage finds no root window (RuntimeError).
TkRaises == closed

\* What a message box called by a worker thread does: it is shown, or the
\* call raises. Without the application the box needs a root window of its
\* own, which it may or may not get.
Reports == IF TkRaises THEN {"shown", "raises"} ELSE {"shown"}

\* perform_ocr, lines 704-708: the message box of each branch.
OcrMessage(result) ==
    CASE result = "ok" -> "info_text_copied"
      [] result = "not_found" -> "error_tesseract_not_found"
      [] OTHER -> "error_ocr"

\* copy_image_to_clipboard, lines 672-678: the message box of each branch.
ClipMessage(result) ==
    CASE result = "ok" -> "info_image_copied"
      [] result = "unsupported" -> "info_copy_not_supported"
      [] OTHER -> "error_copy_image_failed"

\* The end of perform_ocr and of copy_image_to_clipboard: the message box of
\* the branch taken. The boxes of the try body (results "ok" and
\* "unsupported") are inside the try: when such a call raises, the handler
\* for Exception takes over and calls the error box (second). A call made by
\* a handler is guarded by nothing: when it raises, the exception leaves
\* the job function and no message is shown.
Finish(job, used, result, raised, clip, first, second) ==
    LET Message(r) == IF job.kind = "ocr" THEN OcrMessage(r)
                      ELSE ClipMessage(r)
        caught == result \in {"ok", "unsupported"} /\ first = "raises"
        branch == IF caught THEN "error" ELSE result
        exc == IF caught THEN "TclError" ELSE raised
        shown == IF caught THEN second = "shown" ELSE first = "shown"
    IN  [Quiet EXCEPT
           !.job = Done(job, used, branch),
           !.clipboard = clip,
           !.raised = exc,
           !.msg = IF shown THEN Msg(Message(branch), "worker") ELSE None,
           !.detail = IF shown /\ branch = "error" THEN exc ELSE "none",
           !.escaped = IF shown THEN "none" ELSE "TclError",
           !.worker_ui_op = "messagebox"]

\* display_captured_image -> resize_image, lines 597-606, on a worker
\* thread: the guards and the reads of the label size and the image size.
\* When a guard returns, line 588 posts the label update and the job is over.
\* display_captured_image has no try: what winfo_width raises leaves it.
DisplayRead(w) ==
    /\ Takes(w, "display")
    /\ IF TkRaises /\ original_image # None
       THEN /\ out' = [WorkerOp("winfo_width") EXCEPT !.escaped = "TclError"]
            /\ UNCHANGED <<running, posted>>
       ELSE /\ IF original_image = None \/ viewport[1] <= 1 \/ viewport[2] <= 1
               THEN /\ posted < MaxPosted
                    /\ posted' = posted + 1
                    /\ UNCHANGED running
               ELSE /\ running' = [running EXCEPT ![w] =
                           [Head(queue) EXCEPT
                               !.pc = "make",
                               !.loc = [lw |-> viewport[1], lh |-> viewport[2],
                                        ow |-> original_image.w,
                                        oh |-> original_image.h]]]
                    /\ UNCHANGED posted
            /\ out' = IF original_image = None
                      THEN Quiet ELSE WorkerOp("winfo_width")
    /\ UNCHANGED <<constVars, configVars, closed, executor_shutdown,
                   engineVars, root_visible, capture_after, selectorVars,
                   captures, imageVars, tk_image, label_image, buttonVars,
                   viewport, debounceVars>>

\* resize_image, lines 608-621, on a worker thread: self.original_image is
\* read again for the pixels and the PhotoImage is made by the worker; then
\* line 588, root.after(0, self._update_image_label), hands the label update
\* to the UI thread. What PhotoImage raises leaves display_captured_image.
DisplayMake(w) ==
    /\ At(w, "display", "make")
    /\ IF TkRaises
       THEN /\ out' = [WorkerOp("PhotoImage") EXCEPT !.escaped = "RuntimeError"]
            /\ UNCHANGED <<tk_image, posted>>
       ELSE /\ LET l == running[w].loc
                   sz == ScaledSize(version, l.ow, l.oh, l.lw, l.lh)
               IN  tk_image' = IF l.ow <= l.lw /\ l.oh <= l.lh
                               THEN Photo(original_image.id, original_image.w,
                                          original_image.h)
                               ELSE Photo(original_image.id, sz[1], sz[2])
            /\ posted < MaxPosted
            /\ posted' = posted + 1
            /\ out' = WorkerOp("PhotoImage")
    /\ running' = [running EXCEPT ![w] = None]
    /\ UNCHANGED <<constVars, configVars, closed, executor_shutdown,
                   engineVars, root_visible, capture_after, selectorVars,
                   captures, imageVars, label_image, buttonVars, viewport,
                   debounceVars, queue>>

\* The branches of perform_ocr: the body runs through, raises
\* TesseractNotFoundError, or raises anything else.
OcrOutcomes == {"ok", "not_found", "error"}

\* The image perform_ocr hands to extract_text, line 702.
OcrSource(job, current) == current

\* perform_ocr, lines 682-701, on a worker thread: the OCR language is read
\* from the Tk variable language_var by the worker itself, and the
\* OCRProcessor is made. When language_var.get raises, the handler for
\* Exception reports it and the job is over.
OcrStart(w) ==
    /\ Takes(w, "ocr")
    /\ IF TkRaises
       THEN /\ \E first \in Reports :
                  out' = Finish(Head(queue), None, "error", "TclError", "none",
                                first, first)
            /\ UNCHANGED <<running, tesseract_cmd>>
       ELSE /\ running' = [running EXCEPT
                              ![w] = [Head(queue) EXCEPT !.pc = "extract"]]
            /\ tesseract_cmd' = EngineCmd(tesseract_path, tesseract_cmd)
            /\ out' = WorkerOp("language_var.get")
    /\ UNCHANGED <<constVars, configVars, closed, executor_shutdown,
                   tesseract_path, dialog, root_visible, capture_after,
                   selectorVars, captures, imageVars, tk_image, label_image,
                   buttonVars, viewport, debounceVars, posted>>

\* perform_ocr, lines 702-708: extract_text(self.captured_image),
\* pyperclip.copy of the text, and the message box of the branch taken,
\* which the worker shows itself.
OcrExtract(w) ==
    /\ At(w, "ocr", "extract")
    /\ \E raised \in OcrRaises(tesseract_cmd), first \in Reports,
          second \in Reports :
          /\ OcrResult(raised) \in OcrOutcomes
          /\ out' = [Finish(running[w],
                            OcrSource(running[w], captured_image),
                            OcrResult(raised), raised,
                            IF raised = "none" THEN "text" ELSE "none",
                            first, second)
                        EXCEPT !.engine = tesseract_cmd]
    /\ running' = [running EXCEPT ![w] = None]
    /\ UNCHANGED <<constVars, configVars, closed, executor_shutdown,
                   engineVars, root_visible, capture_after, selectorVars,
                   captures, imageVars, tk_image, label_image, buttonVars,
                   viewport, debounceVars, queue, posted>>

\* copy_image_to_clipboard, lines 653-657, on a worker thread: up to the
\* first read of self.captured_image.
ClipStart(w) ==
    /\ Takes(w, "clip")
    /\ running' = [running EXCEPT ![w] = [Head(queue) EXCEPT !.pc = "copy"]]
    /\ out' = Quiet
    /\ UNCHANGED <<constVars, configVars, closed, executor_shutdown,
                   engineVars, root_visible, capture_after, selectorVars,
                   captures, imageVars, tk_image, label_image, buttonVars,
                   viewport, debounceVars, posted>>

\* copy_image_to_clipboard, lines 653-678 (release 1.0: 659-688): the ways
\* the body can go. On 'nt' the transfer succeeds, fails before
\* EmptyClipboard or fails after it; elsewhere release 1.1 does nothing and
\* release 1.0 tries root.clipboard_append, which returns or raises.
ClipOutcomes(ver, os) ==
    IF os = "nt" THEN {"ok", "error", "error_emptied"}
    ELSE IF ver = "V1.1" THEN {"unsupported"}
    ELSE {"ok", "unsupported"}

\* The image copy_image_to_clipboard transfers, line 660.
ClipSource(job, current) == current

\* copy_image_to_clipboard whose except branch also forgets the image.
ClipCopy_ClearsOnFailure(w) ==
    /\ At(w, "clip", "copy")
    /\ captured_image' = None
    /\ out' = [Quiet EXCEPT
                 !.job = Done(running[w], captured_image, "error"),
                 !.msg = Msg("error_copy_image_failed", "worker"),
                 !.worker_ui_op = "messagebox"]
    /\ running' = [running EXCEPT ![w] = None]
    /\ UNCHANGED <<constVars, configVars, closed, executor_shutdown,
                   engineVars, root_visible, capture_after, selectorVars,
                   captures, original_image, tk_image, label_image, buttonVars,
                   viewport, debounceVars, queue, posted>>

\* copy_image_to_clipboard, lines 658-678: the transfer and the message box
\* of the branch taken, which the worker shows itself.
ClipCopy(w) ==
    /\ At(w, "clip", "copy")
    /\ \E outcome \in ClipOutcomes(version, os_name) :
          LET reads == os_name = "nt" \/ version = "V1.0"
              result == IF outcome = "error_emptied" THEN "error" ELSE outcome
          IN  \E first \in Reports, second \in Reports :
                out' = Finish(running[w],
                              IF reads
                              THEN ClipSource(running[w], captured_image)
                              ELSE None,
                              result,
                              IF result = "error" THEN "Exception" ELSE "none",
                              IF outcome = "ok"
                              THEN (IF os_name = "nt" THEN "image" ELSE "text")
                              ELSE IF outcome = "error_emptied"
                                      \/ (reads /\ os_name # "nt")
                              THEN "emptied"
                              ELSE "none",
                              first, second)
    /\ running' = [running EXCEPT ![w] = None]
    /\ UNCHANGED <<constVars, configVars, closed, executor_shutdown,
                   engineVars, root_visible, capture_after, selectorVars,
                   captures, imageVars, tk_image, label_image, buttonVars,
                   viewport, debounceVars, queue, posted>>

\* ------------------------------------------------------- specification
DisplayStep == \E w \in Workers : DisplayRead(w) \/ DisplayMake(w)
OcrStep == \E w \in Workers : OcrStart(w) \/ OcrExtract(w)
ClipStep == \E w \in Workers : ClipStart(w) \/ ClipCopy(w)

Next ==
    \/ StartCapture
    \/ CaptureProcess
    \/ OnButtonPress
    \/ OnMouseDrag
    \/ OnButtonRelease
    \/ CancelCapture
    \/ OnTextButton
    \/ OnImageButton
    \/ OnWindowResize
    \/ Tick
    \/ DebouncedResize
    \/ UpdateImageLabel
    \/ DisplayStep
    \/ OcrStep
    \/ ClipStep

Spec == Init /\ [][Next]_vars
SpecV10 == InitV10 /\ [][Next]_vars

\* ------------------------------------------------- ConfigurationDialog
\* show_configuration, lines 547-549: the dialog opens on the configured
\* path with an empty validation label. It is modal; what it returns is
\* taken over by OnSave. pc is where validate_tesseract_path stands ("idle"
\* when it is not running) and original_path its local variable of line 166.
ShowConfiguration ==
    /\ root_visible
    /\ dialog = None
    /\ dialog' = [path |-> tesseract_path, label |-> "", pc |-> "idle",
                  original_path |-> ""]
    /\ out' = Quiet
    /\ UNCHANGED <<constVars, configVars, closed, executor_shutdown,
                   tesseract_path, tesseract_cmd, root_visible, capture_after,
                   selectorVars, captures, imageVars, tk_image, label_image,
                   buttonVars, viewport, debounceVars, poolVars, posted>>

\* What the dialog's handlers leave alone.
DialogUnchanged ==
    UNCHANGED <<constVars, closed, executor_shutdown, tesseract_cmd,
                root_visible, capture_after, selectorVars, captures, imageVars,
                tk_image, label_image, buttonVars, viewport, debounceVars,
                poolVars, posted>>

\* The user types a path into path_entry, lines 111-112.
EnterPath ==
    /\ dialog # None
    /\ \E path \in Paths : dialog' = [dialog EXCEPT !.path = path]
    /\ out' = Quiet
    /\ UNCHANGED <<tesseract_path, configVars>>
    /\ DialogUnchanged

\* browse_tesseract_path, lines 138-152: the file dialog returns '' or the
\* path of an existing file, which is validated at once.
BrowseTesseractPath ==
    /\ dialog # None
    /\ \E path \in {p \in Paths : p = "" \/ Exists(p)} :
          IF path # ""
          THEN /\ dialog' = [dialog EXCEPT
                                 !.path = path,
                                 !.label = Validation(path).label]
               /\ out' = [Quiet EXCEPT !.validation = Validation(path)]
          ELSE /\ UNCHANGED dialog
               /\ out' = Quiet
    /\ UNCHANGED <<tesseract_path, configVars>>
    /\ DialogUnchanged

\* validate_tesseract_path, lines 154-176, run by validate_button or by the
\* timer of create_widgets (line 136), when no worker thread takes a step
\* while it runs: the command it installs for the version query (line 168)
\* is put back on every way out (line 176).
ValidateTesseractPath ==
    /\ dialog # None
    /\ dialog' = [dialog EXCEPT !.label = Validation(dialog.path).label]
    /\ out' = [Quiet EXCEPT !.validation = Validation(dialog.path)]
    /\ UNCHANGED <<tesseract_path, configVars>>
    /\ DialogUnchanged

\* validate_tesseract_path, lines 154-168, as the worker threads see it:
\* up to the call of get_tesseract_version. A path that is empty or names
\* no file is turned down at once; otherwise the command of the process is
\* kept in original_path and replaced by the path of the dialog.
ValidateEnter ==
    /\ dialog # None
    /\ dialog.pc = "idle"
    /\ IF Validation(dialog.path).invoked
       THEN /\ dialog' = [dialog EXCEPT !.pc = "version",
                                        !.original_path = tesseract_cmd]
            /\ tesseract_cmd' = dialog.path
            /\ out' = Quiet
       ELSE /\ dialog' = [dialog EXCEPT !.label = Validation(dialog.path).label]
            /\ out' = [Quiet EXCEPT !.validation = Validation(dialog.path)]
            /\ UNCHANGED tesseract_cmd
    /\ UNCHANGED <<constVars, configVars, closed, executor_shutdown,
                   tesseract_path, root_visible, capture_after, selectorVars,
                   captures, imageVars, tk_image, label_image, buttonVars,
                   viewport, debounceVars, poolVars, posted>>

\* validate_tesseract_path, lines 169-176: get_tesseract_version returns or
\* raises, the label says which, and the finally clause installs
\* original_path again.
ValidateLeave ==
    /\ dialog # None
    /\ dialog.pc = "version"
    /\ dialog' = [dialog EXCEPT !.label = Validation(dialog.path).label,
                                !.pc = "idle",
                                !.original_path = ""]
    /\ tesseract_cmd' = dialog.original_path
    /\ out' = [Quiet EXCEPT !.validation = Validation(dialog.path)]
    /\ UNCHANGED <<constVars, configVars, closed, executor_shutdown,
                   tesseract_path, root_visible, capture_after, selectorVars,
                   captures, imageVars, tk_image, label_image, buttonVars,
                   viewport, debounceVars, poolVars, posted>>

\* on_save that stores the path whatever the validation says.
OnSave_Unvalidated ==
    /\ dialog # None
    /\ tesseract_path' = dialog.path
    /\ config' = Own(Obj([config.value.fields EXCEPT
                             !["tesseract_path"] = dialog.path]))
    /\ config_file' \in save_config(config'.value, config_file)
    /\ UNCHANGED default_config
    /\ dialog' = None
    /\ out' = [Quiet EXCEPT !.validation = Validation(dialog.path)]
    /\ DialogUnchanged

\* on_save, lines 178-189, and show_configuration, lines 550-553, which
\* takes over the configuration the dialog returns, a copy of its own
\* (line 65) with the path set, and saves it.
OnSave ==
    /\ dialog # None
    /\ IF Validation(dialog.path).valid
       THEN /\ tesseract_path' = dialog.path
            /\ config' = Own(Obj([config.value.fields EXCEPT
                                     !["tesseract_path"] = dialog.path]))
            /\ config_file' \in save_config(config'.value, config_file)
            /\ UNCHANGED default_config
            /\ dialog' = None
            /\ out' = [Quiet EXCEPT !.validation = Validation(dialog.path)]
       ELSE /\ dialog' = [dialog EXCEPT !.label = Validation(dialog.path).label]
            /\ out' = [Quiet EXCEPT
                         !.validation = Validation(dialog.path),
                         !.msg = Msg("config_invalid_config_message", "ui")]
            /\ UNCHANGED <<tesseract_path, configVars>>
    /\ DialogUnchanged

\* on_cancel, lines 191-196: the dialog closes and returns None.
OnCancel ==
    /\ dialog # None
    /\ dialog' = None
    /\ out' = Quiet
    /\ UNCHANGED <<tesseract_path, configVars>>
    /\ DialogUnchanged

\* ------------------------------------------------------------ shutdown
\* on_closing that destroys the main window and leaves the executor as it is.
OnClosing_DestroyOnly ==
    /\ root_visible
    /\ ~closed
    /\ dialog = None
    /\ closed' = TRUE
    /\ root_visible' = FALSE
    /\ timers' = [i \in TimerIds |-> NoTimer]
    /\ posted' = 0
    /\ out' = Quiet
    /\ UNCHANGED <<constVars, configVars, executor_shutdown, engineVars,
                   capture_after, selectorVars, captures, imageVars, tk_image,
                   label_image, buttonVars, viewport, resize_job, since_event,
                   burst_events, poolVars>>

\* on_closing, lines 453-456, run for WM_DELETE_WINDOW of the main window.
\* executor.shutdown(wait=False) lets the worker threads finish the work
\* items already submitted; root.destroy() ends the application with its
\* pending timers and callbacks.
OnClosing ==
    /\ root_visible
    /\ ~closed
    /\ dialog = None
    /\ executor_shutdown' = TRUE
    /\ closed' = TRUE
    /\ root_visible' = FALSE
    /\ timers' = [i \in TimerIds |-> NoTimer]
    /\ posted' = 0
    /\ out' = Quiet
    /\ UNCHANGED <<constVars, configVars, engineVars, capture_after,
                   selectorVars, captures, imageVars, tk_image, label_image,
                   buttonVars, viewport, resize_job, since_event, burst_events,
                   poolVars>>

\* ------------------------------------------------------------ job runs
\* Release 1.1 when process_captured_image has just taken over the first
\* capture: the display job is queued and the actions are enabled.
InitJobs ==
    /\ version = "V1.1"
    /\ os_name \in OsNames
    /\ root_visible = TRUE
    /\ capture_after = 0
    /\ selection_window = "none"
    /\ start_xy = None
    /\ overlays = 0
    /\ captures = 1
    /\ captured_image = Img(1, 1, 1)
    /\ original_image = Img(1, 1, 1)
    /\ tk_image = None
    /\ label_image = None
    /\ text_button = "normal"
    /\ image_button = "normal"
    /\ viewport = <<MaxView, MaxView>>
    /\ resize_job = None
    /\ timers = [i \in TimerIds |-> NoTimer]
    /\ since_event = 0
    /\ burst_events = 0
    /\ queue = <<Job("display", Img(1, 1, 1))>>
    /\ running = [w \in Workers |-> None]
    /\ posted = 0
    /\ tesseract_path = ""
    /\ tesseract_cmd = DefaultCmd
    /\ dialog = None
    /\ closed = FALSE
    /\ executor_shutdown = FALSE
    /\ config_file = Json(ConfigOf(tesseract_path, "tur"))
    /\ config = Own(ConfigOf(tesseract_path, "tur"))
    /\ default_config = DEFAULT_CONFIG(os_name)
    /\ out = Quiet

\* The jobs of the worker pool, the buttons that submit them, and the
\* shutdown. A destroyed application runs no handler of the UI thread.
NextJobs ==
    \/ (~closed /\ OnTextButton)
    \/ (~closed /\ OnImageButton)
    \/ (~closed /\ UpdateImageLabel)
    \/ OnClosing
    \/ DisplayStep
    \/ OcrStep
    \/ ClipStep

SpecJobs == InitJobs /\ [][NextJobs]_vars

\* ------------------------------------------------------- engine runs
\* Release 1.1 with a captured image on display and any engine path in the
\* configuration file it loaded (lines 32-47).
InitEngine ==
    /\ version = "V1.1"
    /\ os_name \in OsNames
    /\ root_visible = TRUE
    /\ capture_after = 0
    /\ selection_window = "none"
    /\ start_xy = None
    /\ overlays = 0
    /\ captures = 1
    /\ captured_image = Img(1, 1, 1)
    /\ original_image = Img(1, 1, 1)
    /\ tk_image = Photo(1, 1, 1)
    /\ label_image = Photo(1, 1, 1)
    /\ text_button = "normal"
    /\ image_button = "normal"
    /\ viewport = <<MaxView, MaxView>>
    /\ resize_job = None
    /\ timers = [i \in TimerIds |-> NoTimer]
    /\ since_event = 0
    /\ burst_events = 0
    /\ queue = <<>>
    /\ running = [w \in Workers |-> None]
    /\ posted = 0
    /\ tesseract_path \in Paths
    /\ tesseract_cmd = DefaultCmd
    /\ dialog = None
    /\ closed = FALSE
    /\ executor_shutdown = FALSE
    /\ config_file = Json(ConfigOf(tesseract_path, "tur"))
    /\ config = Own(ConfigOf(tesseract_path, "tur"))
    /\ default_config = DEFAULT_CONFIG(os_name)
    /\ out = Quiet

\* The settings dialog and the OCR jobs. The dialog holds the grab, so the
\* buttons of the main window answer only while it is closed.
NextEngine ==
    \/ ShowConfiguration
    \/ EnterPath
    \/ BrowseTesseractPath
    \/ ValidateTesseractPath
    \/ OnSave
    \/ OnCancel
    \/ (dialog = None /\ OnTextButton)
    \/ OcrStep

SpecEngine == InitEngine /\ [][NextEngine]_vars

\* ---------------------------------------------------- validation runs
\* The validation of the dialog step by step, next to the OCR jobs of the
\* worker threads. The UI thread is inside validate_tesseract_path while
\* pc is "version", so it runs no other handler then; the OCR job was
\* submitted before the dialog opened or is submitted after it closes.
UiIdle == IF dialog = None THEN TRUE ELSE dialog.pc = "idle"
NextValidation ==
    \/ ShowConfiguration
    \/ (UiIdle /\ EnterPath)
    \/ ValidateEnter
    \/ ValidateLeave
    \/ (UiIdle /\ OnCancel)
    \/ (dialog = None /\ OnTextButton)
    \/ OcrStep

SpecValidation == InitEngine /\ [][NextValidation]_vars

\* ------------------------------------------------------- scaler runs
\* The controller holds a captured image whose display job ran before the
\* label was laid out, a <Configure> event has given the label its size and
\* the debounce timer of that event is due.
InitScalerFor(ver) ==
    /\ version = ver
    /\ os_name = "nt"
    /\ root_visible = TRUE
    /\ capture_after = 0
    /\ selection_window = "none"
    /\ start_xy = None
    /\ overlays = 0
    /\ captures = 1
    /\ \E w \in 1..MaxSource, h \in 1..MaxSource :
          /\ captured_image = Img(1, w, h)
          /\ original_image = Img(1, w, h)
    /\ tk_image = None
    /\ label_image = None
    /\ text_button = "normal"
    /\ image_button = "normal"
    /\ viewport \in (1..MaxLabel) \X (1..MaxLabel)
    /\ resize_job = [id |-> 1]
    /\ timers = [i \in TimerIds |-> IF i = 1 THEN 0 ELSE NoTimer]
    /\ since_event = DebounceTicks(ver)
    /\ burst_events = 1
    /\ queue = <<>>
    /\ running = [w \in Workers |-> None]
    /\ posted = 0
    /\ tesseract_path = ""
    /\ tesseract_cmd = DefaultCmd
    /\ dialog = None
    /\ closed = FALSE
    /\ executor_shutdown = FALSE
    /\ config_file = Json(ConfigOf(tesseract_path, "tur"))
    /\ config = Own(ConfigOf(tesseract_path, "tur"))
    /\ default_config = DEFAULT_CONFIG(os_name)
    /\ out = Quiet

InitScaler == InitScalerFor("V1.1")
InitScalerV10 == InitScalerFor("V1.0")

\* The timer fires and the label update it schedules runs.
NextScaler ==
    \/ DebouncedResize
    \/ UpdateImageLabel

SpecScaler == InitScaler /\ [][NextScaler]_vars
SpecScalerV10 == InitScalerV10 /\ [][NextScaler]_vars

\* ------------------------------------------------------ display runs
\* Release 1.1 when process_captured_image has just taken over the first
\* capture, an image as large as the label: the display job is queued.
InitDisplay ==
    /\ version = "V1.1"
    /\ os_name \in OsNames
    /\ root_visible = TRUE
    /\ capture_after = 0
    /\ selection_window = "none"
    /\ start_xy = None
    /\ overlays = 0
    /\ captures = 1
    /\ captured_image = Img(1, MaxView + 1, MaxView + 1)
    /\ original_image = Img(1, MaxView + 1, MaxView + 1)
    /\ tk_image = None
    /\ label_image = None
    /\ text_button = "normal"
    /\ image_button = "normal"
    /\ viewport = <<MaxView + 1, MaxView + 1>>
    /\ resize_job = None
    /\ timers = [i \in TimerIds |-> NoTimer]
    /\ since_event = 0
    /\ burst_events = 0
    /\ queue = <<Job("display", Img(1, MaxView + 1, MaxView + 1))>>
    /\ running = [w \in Workers |-> None]
    /\ posted = 0
    /\ tesseract_path = ""
    /\ tesseract_cmd = DefaultCmd
    /\ dialog = None
    /\ closed = FALSE
    /\ executor_shutdown = FALSE
    /\ config_file = Json(ConfigOf(tesseract_path, "tur"))
    /\ config = Own(ConfigOf(tesseract_path, "tur"))
    /\ default_config = DEFAULT_CONFIG(os_name)
    /\ out = Quiet

\* The display job and the resize path.
NextDisplay ==
    \/ OnWindowResize
    \/ Tick
    \/ DebouncedResize
    \/ UpdateImageLabel
    \/ DisplayStep

\* Whether a timer of the resize events is due, and whether a worker thread
\* has a step of a display job to take.
TimerDue == \E i \in TimerIds : timers[i] = 0
DisplayWork ==
    \/ /\ queue # <<>>
       /\ Head(queue).kind = "display"
       /\ \E w \in Workers : Idle(w)
    \/ \E w \in Workers : At(w, "display", "make")

\* A worker thread that has a work item goes on with it, the clock ticks,
\* and the Tk event loop runs a timer that is due and a callback that is
\* pending. Nothing makes the user resize the window. The weak fairness of
\* DebouncedResize and of DisplayStep is written out with the condition
\* under which each can be taken.
FairDisplay ==
    /\ WF_vars(Tick)
    /\ WF_vars(UpdateImageLabel)
    /\ []<>(~TimerDue) \/ []<><<DebouncedResize>>_vars
    /\ []<>(~DisplayWork) \/ []<><<DisplayStep>>_vars

SpecDisplay == InitDisplay /\ [][NextDisplay]_vars /\ FairDisplay

\* ------------------------------------------------------- capture runs
\* The capture button, the timer of the delay and the handlers of the
\* overlay.
NextCapture ==
    \/ StartCapture
    \/ CaptureProcess
    \/ OnButtonPress
    \/ OnMouseDrag
    \/ OnButtonRelease
    \/ CancelCapture

\* The user ends a selection: Escape, or pointer-up after a press.
SelectionEnds ==
    \/ CancelCapture
    \/ start_xy # None /\ OnButtonRelease

\* The event loop runs the timer start_capture set, and the user does not
\* leave an overlay open for ever. Nothing makes the user start a capture.
FairCapture ==
    /\ WF_vars(CaptureProcess)
    /\ WF_vars(SelectionEnds)

SpecCapture == Init /\ [][NextCapture]_vars /\ FairCapture
SpecCaptureV10 == InitV10 /\ [][NextCapture]_vars /\ FairCapture

\* ------------------------------------------------- configuration runs
\* MainApplication.__init__, lines 414-443: the configuration is loaded,
\* line 420 reads config['interface_language'], which raises TypeError for
\* a configuration that is a list, and line 442 calls switch_language with
\* the language loaded, which stores it again and saves the configuration.
LoadConfig ==
    /\ config = None
    /\ LET loaded == load_config(config_file, default_config)
       IN  IF loaded.value.type # "object"
           THEN /\ config' = loaded
                /\ out' = [Quiet EXCEPT !.escaped = "TypeError"]
                /\ UNCHANGED <<config_file, default_config, tesseract_path,
                               root_visible>>
           ELSE /\ config' = loaded
                /\ default_config' = IF loaded.shared THEN loaded.value
                                     ELSE default_config
                /\ config_file' \in save_config(loaded.value, config_file)
                /\ tesseract_path' = loaded.value.fields["tesseract_path"]
                /\ root_visible' = TRUE
                /\ out' = Quiet
    /\ UNCHANGED <<constVars, closed, executor_shutdown, tesseract_cmd, dialog,
                   capture_after, selectorVars, captures, imageVars, tk_image,
                   label_image, buttonVars, viewport, debounceVars, poolVars,
                   posted>>

\* switch_language, lines 498-505, run by an entry of the language menu.
SwitchLanguage ==
    /\ root_visible
    /\ dialog = None
    /\ config # None
    /\ \E lang_code \in Langs :
          /\ SetItem("interface_language", lang_code)
          /\ config_file' \in save_config(config'.value, config_file)
    /\ out' = Quiet
    /\ UNCHANGED <<constVars, closed, executor_shutdown, engineVars,
                   root_visible, capture_after, selectorVars, captures,
                   imageVars, tk_image, label_image, buttonVars, viewport,
                   debounceVars, poolVars, posted>>

\* Release 1.1 before MainApplication is constructed, with anything in the
\* configuration file.
InitConfig ==
    /\ version = "V1.1"
    /\ os_name \in OsNames
    /\ root_visible = FALSE
    /\ capture_after = 0
    /\ selection_window = "none"
    /\ start_xy = None
    /\ overlays = 0
    /\ captures = 0
    /\ captured_image = None
    /\ original_image = None
    /\ tk_image = None
    /\ label_image = None
    /\ text_button = "disabled"
    /\ image_button = "disabled"
    /\ viewport = <<1, 1>>
    /\ resize_job = None
    /\ timers = [i \in TimerIds |-> NoTimer]
    /\ since_event = 0
    /\ burst_events = 0
    /\ queue = <<>>
    /\ running = [w \in Workers |-> None]
    /\ posted = 0
    /\ tesseract_path = ""
    /\ tesseract_cmd = DefaultCmd
    /\ dialog = None
    /\ closed = FALSE
    /\ executor_shutdown = FALSE
    /\ config_file \in FileContents
    /\ config = None
    /\ default_config = DEFAULT_CONFIG(os_name)
    /\ out = Quiet

\* The start of the program and the edits of the configuration.
NextConfig ==
    \/ LoadConfig
    \/ SwitchLanguage

SpecConfig == InitConfig /\ [][NextConfig]_vars

\* ------------------------------------------------------- desiredDesign
\* src/desiredDesign.py is the PySide6 design of the main window with the
\* capture overlay. It reuses the variables: capture_after counts the
\* pending QTimer.singleShot calls of _show_overlay, selection_window is the
\* state of self.overlay, overlays the overlay windows on the screen,
\* start_xy the overlay's origin, label_image the pixmap of image_label.
DesignUnchanged ==
    UNCHANGED <<constVars, configVars, closed, executor_shutdown, engineVars,
                root_visible, imageVars, tk_image, buttonVars, viewport,
                debounceVars, poolVars, posted>>

\* _show_overlay, lines 145-148: a new ScreenshotOverlay, whose origin is
\* QPoint(), takes the place of the one self.overlay held, which goes with
\* its last reference.
ShowOverlay ==
    /\ selection_window' = "shown"
    /\ start_xy' = [x |-> 0, y |-> 0]
    /\ overlays' = 1

\* start_screenshot, lines 137-143, run by a click on new_btn. The main
\* window stays on the screen; the button is out of reach only under a
\* full-screen overlay.
StartScreenshot ==
    /\ selection_window # "shown"
    /\ captures < MaxCaptures
    /\ \E delay \in delay_options :
          IF delay > 0
          THEN /\ capture_after' = capture_after + 1
               /\ UNCHANGED selectorVars
          ELSE /\ ShowOverlay
               /\ UNCHANGED capture_after
    /\ captures' = captures + 1
    /\ out' = Quiet
    /\ UNCHANGED label_image
    /\ DesignUnchanged

\* _show_overlay run by a timer of start_screenshot.
ShowOverlayTimer ==
    /\ capture_after > 0
    /\ capture_after' = capture_after - 1
    /\ ShowOverlay
    /\ out' = Quiet
    /\ UNCHANGED <<captures, label_image>>
    /\ DesignUnchanged

\* mousePressEvent, lines 23-26.
MousePressEvent ==
    /\ selection_window = "shown"
    /\ \E p \in Points : start_xy' = [x |-> p[1], y |-> p[2]]
    /\ out' = Quiet
    /\ UNCHANGED <<capture_after, selection_window, overlays, captures,
                   label_image>>
    /\ DesignUnchanged

\* mouseMoveEvent, lines 28-29: moves the rubber band, which is feedback only.
MouseMoveEvent ==
    /\ selection_window = "shown"
    /\ out' = Quiet
    /\ UNCHANGED state

\* QRect(origin, pos).normalized(), line 33: both corners belong to the
\* rectangle, so a side is one pixel longer than the distance of the corners.
QRectNormalized(start, end_x, end_y) ==
    LET x1 == Min(start.x, end_x)
        y1 == Min(start.y, end_y)
        x2 == Max(start.x, end_x)
        y2 == Max(start.y, end_y)
    IN  <<x1, y1, x2 - x1 + 1, y2 - y1 + 1>>

\* pixmap.scaled(size, KeepAspectRatio), lines 152-156: the size of the
\* pixmap of w x h pixels scaled into a label of the size view.
QtScaled(w, h, view) ==
    LET rw == (view[2] * w) \div h
    IN  IF rw <= view[1] THEN <<rw, view[2]>>
        ELSE <<view[1], (view[1] * h) \div w>>

\* mouseReleaseEvent, lines 31-39, with on_screenshot, lines 150-156, which
\* the signal calls: the overlay is hidden, processEvents runs what is
\* pending (a timer of start_screenshot whose time has come among it, which
\* puts up the next overlay), the screen is grabbed, the pixmap goes to the
\* label and the overlay is closed.
MouseReleaseEvent ==
    /\ selection_window = "shown"
    /\ \E p \in Points, nested \in BOOLEAN :
          LET r == QRectNormalized(start_xy, p[1], p[2])
              sz == QtScaled(r[3], r[4], viewport)
          IN  /\ nested => capture_after > 0
              /\ IF nested
                 THEN /\ capture_after' = capture_after - 1
                      /\ ShowOverlay
                 ELSE /\ selection_window' = "closed"
                      /\ overlays' = 0
                      /\ UNCHANGED <<capture_after, start_xy>>
              /\ label_image' = Photo(captures, sz[1], sz[2])
              /\ out' = [Quiet EXCEPT
                           !.events = <<"hide", "flush", "read",
                                        "callback_image", "close">>,
                           !.released = [x |-> p[1], y |-> p[2]],
                           !.region = [x |-> r[1], y |-> r[2],
                                       w |-> r[3], h |-> r[4]]]
    /\ UNCHANGED captures
    /\ DesignUnchanged

\* The design's main window as MainWindow.__init__ leaves it, with the
\* label laid out.
InitDesign ==
    /\ version = "desiredDesign"
    /\ os_name \in OsNames
    /\ root_visible = TRUE
    /\ capture_after = 0
    /\ selection_window = "none"
    /\ start_xy = None
    /\ overlays = 0
    /\ captures = 0
    /\ captured_image = None
    /\ original_image = None
    /\ tk_image = None
    /\ label_image = None
    /\ text_button = "normal"
    /\ image_button = "normal"
    /\ viewport = <<MaxView, MaxView>>
    /\ resize_job = None
    /\ timers = [i \in TimerIds |-> NoTimer]
    /\ since_event = 0
    /\ burst_events = 0
    /\ queue = <<>>
    /\ running = [w \in Workers |-> None]
    /\ posted = 0
    /\ tesseract_path = ""
    /\ tesseract_cmd = DefaultCmd
    /\ dialog = None
    /\ closed = FALSE
    /\ executor_shutdown = FALSE
    /\ config_file = Json(ConfigOf(tesseract_path, "tur"))
    /\ config = Own(ConfigOf(tesseract_path, "tur"))
    /\ default_config = DEFAULT_CONFIG(os_name)
    /\ out = Quiet

NextDesign ==
    \/ StartScreenshot
    \/ ShowOverlayTimer
    \/ MousePressEvent
    \/ MouseMoveEvent
    \/ MouseReleaseEvent

SpecDesign == InitDesign /\ [][NextDesign]_vars

\* ------------------------------------------------------------ properties
\* The events of the selection handler the latest step ran.
Events == out.events
\* Number of times e occurs in seq.
Count(seq, e) == Cardinality({i \in 1..Len(seq) : seq[i] = e})
\* Position in the events of the completion callback, 0 when it was not called.
CallbackAt ==
    Max(IndexOf(Events, "callback_image"), IndexOf(Events, "callback_none"))
PendingTimers == {i \in TimerIds : timers[i] # NoTimer}

\* C1: an OCR or clipboard job submitted while image A is the captured image
\* completes using A, never an image captured after the submission: the
\* image a finished job used is the image it was submitted with.
C1_JobUsesImageOfSubmission ==
    (out.job # None /\ out.job.used # None) => out.job.used = out.job.snap

\* C2: no worker thread touches a Tk object itself: no widget size query, no
\* PhotoImage, no Tk variable read and no message box happens on a worker.
C2_WorkersNeverTouchUi ==
    /\ out.worker_ui_op = "none"
    /\ out.msg # None => out.msg.by = "ui"

\* C3: while a burst of resize events is open exactly one debounce timer is
\* pending, the one resize_job names, and none is pending otherwise; the
\* rescale a timer runs comes after the whole window has passed since the
\* last event of the burst, reads the label size that event left, and closes
\* the burst, so a burst of N >= 1 events gets exactly one rescale.
C3_OneRescalePerBurst ==
    /\ burst_events > 0 =>
          /\ Cardinality(PendingTimers) = 1
          /\ resize_job # None
          /\ resize_job.id \in PendingTimers
    /\ burst_events = 0 => PendingTimers = {}
    /\ out.rescale # None =>
          /\ out.rescale.events >= 1
          /\ out.rescale.waited >= DebounceTicks(version)
          /\ out.rescale.read = viewport
          /\ burst_events = 0

\* A burst of two resize events has ended in its rescale, for a label that
\* is laid out and an image that exists.
C3_Witness ==
    /\ out.rescale # None
    /\ out.rescale.events >= 2
    /\ out.rescale.read[1] > 1
    /\ original_image # None

\* C4: a selection of width 0 or height 0 ends in the callback receiving no
\* image, and the screen is not read for it.
C4_ZeroAreaFailsWithoutRead ==
    (out.region # None /\ (out.region.w = 0 \/ out.region.h = 0)) =>
        /\ ~Has(Events, "read")
        /\ Count(Events, "callback_none") = 1
        /\ ~Has(Events, "callback_image")

\* C5: Escape on the overlay destroys it and calls the completion callback
\* exactly once, with no image.
C5_EscapeCallsBackOnce ==
    Has(Events, "cancel") =>
        /\ Has(Events, "destroy")
        /\ Count(Events, "callback_none") = 1
        /\ ~Has(Events, "callback_image")

\* C6: on pointer-up the overlay is hidden before the screen is read, and
\* the completion callback is called only after the hide and the read.
C6_HideBeforeReadBeforeCallback ==
    /\ Has(Events, "read") =>
          /\ Has(Events, "hide")
          /\ IndexOf(Events, "hide") < IndexOf(Events, "read")
    /\ (Has(Events, "hide") /\ CallbackAt > 0) =>
          /\ IndexOf(Events, "hide") < CallbackAt
          /\ IndexOf(Events, "read") < CallbackAt

\* A release that read the screen and called back with the image.
C6_Witness ==
    /\ Has(Events, "read")
    /\ Has(Events, "callback_image")

\* C7: the screen is read only after the hide has been followed by a flush
\* of the pending display updates and by a short delay.
C7_ReadOnlyAfterSettle ==
    Has(Events, "read") =>
        /\ IndexOf(Events, "hide") < IndexOf(Events, "flush")
        /\ IndexOf(Events, "flush") < IndexOf(Events, "read")
        /\ IndexOf(Events, "hide") < IndexOf(Events, "sleep")
        /\ IndexOf(Events, "sleep") < IndexOf(Events, "read")

\* C8 as stated: after a failed capture the warning is shown and the
\* controller holds no image and has both actions disabled.
C8_FailedCaptureEndsInNoImage ==
    Has(Events, "callback_none") =>
        /\ out.msg = Msg("warning_screenshot_failed", "ui")
        /\ captured_image = None
        /\ text_button = "disabled"
        /\ image_button = "disabled"

\* C8 amended: a failed capture shows the warning on the UI thread, maps the
\* main window again and leaves the captured image, the display source and
\* both buttons as they were: NoImage stays NoImage, HasImage keeps its image.
C8_FailedCaptureKeepsState ==
    [][Has(out'.events, "callback_none") =>
          /\ out'.msg = Msg("warning_screenshot_failed", "ui")
          /\ root_visible'
          /\ UNCHANGED <<captured_image, original_image, tk_image, label_image,
                         text_button, image_button>>]_vars

\* A capture has failed while the controller held an image.
C8_Witness ==
    /\ Has(Events, "callback_none")
    /\ captured_image # None
    /\ text_button = "normal"

\* C9: a button is enabled only if a captured image exists, every OCR or
\* clipboard job of the executor was submitted with a captured image, and
\* the guard's warning is shown only when there is none.
C9_ActionsNeedImage ==
    /\ (text_button = "normal" \/ image_button = "normal")
          => captured_image # None
    /\ \A i \in 1..Len(queue) :
          queue[i].kind \in {"ocr", "clip"} => queue[i].snap # None
    /\ \A w \in Workers :
          (running[w] # None /\ running[w].kind \in {"ocr", "clip"})
             => running[w].snap # None
    /\ (out.msg # None /\ out.msg.key = "warning_no_screenshot")
          => captured_image = None

\* Both buttons are enabled and an OCR job and a clipboard job are with the
\* executor.
C9_Witness ==
    /\ text_button = "normal"
    /\ image_button = "normal"
    /\ \E i \in 1..Len(queue) : queue[i].kind = "ocr"
    /\ \E w \in Workers : running[w] # None /\ running[w].kind = "clip"

\* C10: no step of an OCR job or of a clipboard job, whatever branch it
\* takes, changes the captured image or the display source, and it leaves
\* an image present and both buttons enabled.
C10_JobsLeaveImageAndButtons ==
    [][(OcrStep \/ ClipStep) =>
          /\ UNCHANGED <<captured_image, original_image>>
          /\ captured_image' # None
          /\ text_button' = "normal"
          /\ image_button' = "normal"]_vars

\* A clipboard job has just ended in its except branch.
C10_Witness ==
    /\ out.job # None
    /\ out.job.kind = "clip"
    /\ out.job.result = "error"
    /\ captured_image # None

\* C11: a successful capture makes the image it produced the captured image
\* and the display source, whatever the controller held before: neither
\* field keeps the image of an earlier capture.
C11_CaptureReplacesImage ==
    [][Has(out'.events, "callback_image") =>
          /\ captured_image' = Img(captures, out'.region.w, out'.region.h)
          /\ original_image' = captured_image'
          /\ captured_image # None => captured_image'.id # captured_image.id
          /\ original_image # None => original_image'.id # original_image.id]_vars

\* The second capture has replaced the first, whose rendering tk_image
\* still holds.
C11_Witness ==
    /\ Has(Events, "callback_image")
    /\ captured_image # None
    /\ captured_image.id = 2
    /\ tk_image # None
    /\ tk_image.src = 1

\* The rescale the latest step ran: the source, the label and the size made.
Rescaled == out.rescale # None /\ original_image # None
Source == original_image
Label == [w |-> viewport[1], h |-> viewport[2]]
Made == out.rescale.size
Fits == Source.w <= Label.w /\ Source.h <= Label.h
Abs(x) == IF x < 0 THEN 0 - x ELSE x
\* The exact scale factor s = min(W/w, H/h) as a fraction num / den.
ScaleByWidth == Label.w * Source.h <= Label.h * Source.w
ScaleNum == IF ScaleByWidth THEN Label.w ELSE Label.h
ScaleDen == IF ScaleByWidth THEN Source.w ELSE Source.h
\* den * |made - side * s| for the exact s of a rescale.
OffBy(made, side) == Abs(made * ScaleDen - side * ScaleNum)

C14_SidesAtLeastOnePixel ==
    (Rescaled /\ Made # None) => (Made.w >= 1 /\ Made.h >= 1)

C16_FailureWarnsCancelIsSilent ==
    /\ (out.region # None /\ ~Has(Events, "callback_image")) =>
          out.msg = Msg("warning_screenshot_failed", "ui")
    /\ Has(Events, "cancel") => out.msg = None

\* The latest step finished an OCR job.
OcrDone == out.job # None /\ out.job.kind = "ocr"

\* C17: an OCR job whose engine is not found ends with the message
\* 'Tesseract not found', which carries no detail; an OCR job that fails in
\* any other way ends with the generic OCR error message carrying the
\* exception as its detail; neither message is shown in the other's case or
\* on success, and a failed job does not write the clipboard.
C17_NotFoundApartFromError ==
    OcrDone =>
       /\ out.raised = "TesseractNotFoundError" <=>
             out.msg.key = "error_tesseract_not_found"
       /\ out.raised \notin {"none", "TesseractNotFoundError"} <=>
             out.msg.key = "error_ocr"
       /\ out.msg.key = "error_ocr" => out.detail = out.raised
       /\ out.msg.key = "error_tesseract_not_found" => out.detail = "none"
       /\ out.raised = "none" <=> out.msg.key = "info_text_copied"
       /\ out.raised # "none" => out.clipboard = "none"

\* An OCR job has ended because the engine was not found.
C17_Witness ==
    /\ OcrDone
    /\ out.raised = "TesseractNotFoundError"
    /\ out.msg.key = "error_tesseract_not_found"

\* What C18 says of the settings dialog: a validation of a path that is
\* empty or names no existing file reports it invalid without running the
\* engine, and a save of such a path is refused: the configuration and the
\* dialog stay as they are and a warning is shown.
BadPathIsRefused ==
    /\ (out'.validation # None /\ ~Exists(out'.validation.path)) =>
          /\ ~out'.validation.valid
          /\ ~out'.validation.invoked
    /\ (OnSave /\ ~Exists(dialog.path)) =>
          /\ tesseract_path' = tesseract_path
          /\ dialog' # None
          /\ dialog'.path = dialog.path
          /\ out'.msg = Msg("config_invalid_config_message", "ui")

ClipDone == out.job # None /\ out.job.kind = "clip"

\* C19: where os.name is not 'nt', a copy-as-image job ends as unsupported:
\* it shows the message 'not supported on this platform' and never 'image
\* copied', it does nothing to the clipboard, and it leaves the captured
\* image as it is.
C19_UnsupportedOffWindows ==
    [][(ClipDone' /\ os_name # "nt") =>
          /\ out'.job.result = "unsupported"
          /\ out'.msg.key = "info_copy_not_supported"
          /\ out'.clipboard = "none"
          /\ captured_image' = captured_image
          /\ original_image' = original_image]_vars

\* C20: a job of the worker pool ends with no exception leaving the job
\* function, and an OCR job or a copy-as-image job ends with exactly one
\* message shown to the user, that of the branch it took.
C20_NoExceptionLeavesAJob ==
    /\ out.escaped = "none"
    /\ (OcrDone \/ ClipDone) =>
          /\ out.msg # None
          /\ out.msg.key = IF OcrDone THEN OcrMessage(out.job.result)
                           ELSE ClipMessage(out.job.result)

\* Whether executor.submit takes a work item: once shutdown has been called
\* it raises RuntimeError instead.
Accepts == ~executor_shutdown
\* The kinds of work item the controller submits.
JobKinds == {"display", "ocr", "clip"}
\* Number of work items of a kind the executor holds with queue q and
\* worker threads r: those waiting and those being run.
HeldItems(q, r, kind) ==
    Cardinality({i \in 1..Len(q) : q[i].kind = kind})
    + Cardinality({w \in Workers : r[w] # None /\ r[w].kind = kind})

\* C21: once on_closing has run the executor is shut down, so a submit is
\* refused; from then on the queue takes no new work item, and the work
\* items of each kind that wait or run are never more than they were: a
\* worker thread runs only what the executor held at the shutdown, and may
\* drop it.
C21_NoSubmitAfterShutdown ==
    [][closed =>
          /\ ~Accepts
          /\ Len(queue') <= Len(queue)
          /\ \A kind \in JobKinds :
                HeldItems(queue', running', kind)
                   <= HeldItems(queue, running, kind)]_vars

\* A work item submitted before the shutdown has been run to its end after
\* it, while another still waits in the queue.
C21_Witness ==
    /\ closed
    /\ executor_shutdown
    /\ out.job # None
    /\ queue # <<>>

\* Captures in flight: overlays that exist and delayed starts that wait.
InFlight == overlays + capture_after

\* C22: at most one capture is in flight: no state has two overlays, two
\* delayed starts waiting, or an overlay with a delayed start waiting.
C22_OneCaptureInFlight ==
    /\ overlays <= 1
    /\ capture_after <= 1
    /\ InFlight <= 1

\* C23: the handler of the text button and the handler of the image button
\* run no engine and write no clipboard: with a captured image each only
\* puts one work item at the tail of the executor's queue and returns, with
\* no worker thread changed and no job finished; the engine is run and the
\* clipboard is written only by steps of the worker threads.
C23_ButtonsOnlySubmit ==
    [][/\ (OnTextButton \/ OnImageButton) =>
             /\ out'.job = None
             /\ out'.clipboard = "none"
             /\ running' = running
             /\ captured_image # None =>
                   /\ Len(queue') = Len(queue) + 1
                   /\ SubSeq(queue', 1, Len(queue)) = queue
                   /\ queue'[Len(queue')].pc = "queued"
                   /\ queue'[Len(queue')].kind \in {"ocr", "clip"}
       /\ (OcrDone' \/ ClipDone' \/ out'.clipboard # "none") =>
             (OcrStep \/ ClipStep)]_vars

\* The handler of the text button has returned: its work item waits in the
\* queue and no worker thread has taken it yet.
C23_Witness ==
    /\ Len(queue) = 1
    /\ queue[1].kind = "ocr"
    /\ \A w \in Workers : running[w] = None
    /\ out = Quiet

\* C24: every rescale that a timer of the resize events drives, that is
\* every step that reads the label size for such a timer and makes an image
\* of the size it computes, is a step of a worker thread.
C24_ResizeRescalesOnWorker ==
    [][(out'.rescale # None /\ out'.rescale.size # None) => DisplayStep]_vars

\* The latest step loaded the configuration.
Loaded == config = None /\ config' # None

\* C25: loading the configuration raises nothing and gives a record with
\* both fields: the default record for a file that is missing, unreadable
\* or holds anything but a JSON object, and for a JSON object its fields
\* with the missing ones taken from the default record; and no step changes
\* the default record.
C25_LoadAlwaysGivesRecord ==
    [][/\ Loaded =>
             /\ out'.escaped = "none"
             /\ config'.value.type = "object"
             /\ Keys \subseteq DOMAIN config'.value.fields
             /\ (config_file.kind # "json"
                   \/ config_file.value.type # "object") =>
                   config'.value = DEFAULT_CONFIG(os_name)
             /\ (config_file.kind = "json"
                   /\ config_file.value.type = "object") =>
                   \A k \in Keys :
                      config'.value.fields[k] =
                         IF k \in DOMAIN config_file.value.fields
                         THEN config_file.value.fields[k]
                         ELSE DEFAULT_CONFIG(os_name).fields[k]
       /\ default_config' = DEFAULT_CONFIG(os_name)]_vars

\* The label shows the display source scaled for the size the label has
\* (a label of 1 pixel is not laid out and has no scaled view).
Shown ==
    (original_image # None /\ viewport[1] > 1 /\ viewport[2] > 1) =>
       LET size == TargetSize(version, original_image, viewport)
       IN  label_image = Photo(original_image.id, size.w, size.h)

\* C26: with the worker threads and the event loop scheduled fairly, once
\* the resize events stop the label comes to show the current image scaled
\* for the current label size, and keeps showing it.
C26_DisplayCatchesUp ==
    []<><<OnWindowResize>>_vars \/ <>[]Shown

\* C27: whichever way a selection ends (a rectangle with an area, one
\* without, a failed screen read, Escape), the handler that ends it leaves
\* no overlay window behind.
C27_OverlayGoneWhenSelectionEnds ==
    out.events # <<>> =>
       /\ selection_window \in {"none", "destroyed"}
       /\ overlays = 0

\* The latest handler of the overlay read the screen or called the
\* completion callback.
Completed ==
    \/ Has(Events, "read")
    \/ Has(Events, "callback_image")
    \/ Has(Events, "callback_none")

\* C28: a selection completes only from Dragging. A release or a pointer
\* move on an overlay that has no anchor reads no screen and calls no
\* callback, and leaves the overlay shown and without an anchor, where a
\* press starts a selection and Escape cancels.
C28_CompletedOnlyFromDragging ==
    [][/\ Completed' => start_xy # None
       /\ (start_xy = None /\ (OnButtonRelease \/ OnMouseDrag)) =>
             /\ ~Completed'
             /\ out'.region = None
             /\ selection_window' = "shown"
             /\ start_xy' = None
             /\ overlays' = overlays
             /\ root_visible' = root_visible
             /\ captured_image' = captured_image
             /\ queue' = queue]_vars

\* A handler of an overlay without an anchor has just raised, and a press
\* or Escape can follow.
C28_Witness ==
    /\ out.handler_error = "TypeError"
    /\ selection_window = "shown"
    /\ start_xy = None
    /\ ENABLED OnButtonPress
    /\ ENABLED CancelCapture

\* C29: a capture attempt that has hidden the main window makes it visible
\* again, whichever way the selection ends.
C29_MainWindowComesBack ==
    ~root_visible ~> root_visible

\* The command an OCR job is to run the engine with: the path of the
\* configuration, or with none pytesseract's own command.
ConfiguredCmd == EngineCmd(tesseract_path, DefaultCmd)

\* C30: a validation in the settings dialog does not show in the OCR jobs.
\* Every OCR job runs the engine with the command of the configuration,
\* never with the path the dialog is trying, and once a validation is over
\* the command of the process is the one of the configuration or the one
\* pytesseract started with.
C30_ValidationHiddenFromJobs ==
    /\ out.engine # "none" => out.engine = ConfiguredCmd
    /\ UiIdle => tesseract_cmd \in {DefaultCmd, ConfiguredCmd}
====
